---- MODULE Spec2Model ----
(***************************************************************************)
(* A model of mlmicrophysics:                                              *)
(*   - mlmicrophysics/data.py: subset_data_by_date, the partition of dated *)
(*     rows into training, validation and test sets (SpecPartition);       *)
(*   - scripts/search_ml_model_params.py: main, the distributed search     *)
(*     over model configurations (Spec);                                   *)
(*   - the staging of the scalers in both scripts (Spec).                  *)
(***************************************************************************)
EXTENDS Integers, Naturals, Sequences, FiniteSets, TLC

\* ------------------------------------------------------------------ bounds
\* Dates of the rows handed to subset_data_by_date are 0..MaxDay.
MaxDay == 4
\* validation_frequency is drawn from -1..MaxFreq.
MaxFreq == 3

VARIABLES
    \* ---- subset_data_by_date (data.py)
    p_pc,       \* "ready" | "returned" | "raised": position of one call
    data,       \* the DataFrame: a sequence of rows, each row its subset_col value
    call,       \* the arguments of the call
    ret,        \* the returned (train_data, validation_data, test_data)
    p_err       \* the exception raised by the call, or "none"

p_vars == <<p_pc, data, call, ret, p_err>>

VARIABLES
    \* ---- main (train_quantile_neural_nets.py)
    files,      \* files["train"], files["val"], files["test"]
    \* ---- one call of assemble_data_files by any caller
    c_args,     \* the arguments: the files, the two scalers and train
    c_ret       \* what the call returned or raised

other_vars == <<p_vars, files, c_args, c_ret>>

VARIABLES
    \* ---- main (search_ml_model_params.py)
    pc,             \* position of main
    error,          \* the exception that ended main, or "none"
    config_file,    \* the configuration yaml file on disk, or "missing"
    strict_sampler, \* the installed ParameterSampler rejects n_iter > grid size
    config,         \* the loaded configuration
    train_files, val_files,
    input_scaler, output_scaler,
    files_read,     \* the data files read by pd.read_csv so far
    staged,         \* train_input, train_output, val_input, val_output
    scale_log,      \* the scaler calls made so far: [scaler, op, subset]
    cluster,        \* "none" | "running" | "closed"
    scattered,      \* what client.scatter was given, in call order
    pointers,       \* the futures client.scatter returned
    model_index,    \* position of the loop over config["models"]
    generator,      \* the state of the ParameterSampler being iterated
    submissions,    \* the submitted tasks, in submission order
    status,         \* per submitted task: "pending" | "finished" | "error"
    yielded,        \* the tasks as_completed has yielded, in order
    val_results,    \* model name -> the results appended so far
    written,        \* the model names whose val_scores csv was written
    raised_at       \* the position of main at which error was raised

m_vars == <<pc, error, config_file, strict_sampler, config, train_files, val_files,
            input_scaler, output_scaler, files_read, staged, scale_log, cluster,
            scattered, pointers, model_index, generator, submissions, status,
            yielded, val_results, written, raised_at>>

vars == <<other_vars, m_vars>>

\* ------------------------------------------------------------ sequences
Range(s) == {s[i] : i \in DOMAIN s}

Min(S) == CHOOSE x \in S : \A y \in S : x <= y

RECURSIVE Ascending(_)
\* the elements of a finite set of integers as an ascending sequence
Ascending(S) == IF S = {} THEN <<>> ELSE <<Min(S)>> \o Ascending(S \ {Min(S)})

Reverse(s) == [i \in 1..Len(s) |-> s[Len(s) + 1 - i]]

\* ------------------------------------------------- numpy / pandas helpers
RECURSIVE SortedValues(_)
\* np.sort(values): the sorted values, duplicates kept
SortedValues(values) ==
    IF values = <<>> THEN <<>>
    ELSE LET lo == Min(Range(values))
         IN SelectSeq(values, LAMBDA x : x = lo)
            \o SortedValues(SelectSeq(values, LAMBDA x : x # lo))

\* np.unique(values): the sorted distinct values
NpUnique(values) == Ascending(Range(values))

\* arr[k::k] for k > 0: the elements at 0-indexed positions k, 2k, 3k, ...
\* (1-indexed k+1, 2k+1, ...)
SliceFrom(arr, k) ==
    LET n == Len(arr)
        cnt == IF n > k THEN ((n - k - 1) \div k) + 1 ELSE 0
    IN [i \in 1..cnt |-> arr[i * k + 1]]

\* arr[k::k] for k < 0: start at index n+k (clipped to -1: empty), step k down to 0
SliceBack(arr, k) ==
    LET n == Len(arr)
        start == n + k
        cnt == IF start >= 0 THEN (start \div (0 - k)) + 1 ELSE 0
    IN [i \in 1..cnt |-> arr[start + (i - 1) * k + 1]]

\* np.isin(a, b, invert=True) used as a mask on a
NotIn(a, b) == SelectSeq(a, LAMBDA x : x \notin Range(b))

\* data.loc[np.isin(data[subset_col].values, dates)]
RowsIn(rows, dates) == SelectSeq(rows, LAMBDA x : x \in Range(dates))

\* data.loc[(data[col] >= lo) & (data[col] <= hi)]
RowsBetween(rows, lo, hi) == SelectSeq(rows, LAMBDA x : x >= lo /\ x <= hi)

\* ------------------------------------------------- subset_data_by_date
NoRet == [train |-> <<>>, validation |-> <<>>, test |-> <<>>]

\* the first failing check of lines 111-116, or "none"
DateCheck(c) ==
    IF c.train_date_start > c.train_date_end THEN "ValueError"
    ELSE IF c.test_date_start > c.test_date_end THEN "ValueError"
    ELSE IF c.train_date_end > c.test_date_start THEN "ValueError"
    ELSE "none"

\* a slice that starts at the first date, arr[::f]
ValidationDatesFromFirst(dates, f) ==
    IF f > 0 THEN <<dates[1]>> \o SliceFrom(dates, f) ELSE SliceBack(dates, f)

\* line 122: a slice with step 0 raises ValueError
ValidationDates(dates, f) ==
    IF f > 0 THEN SliceFrom(dates, f) ELSE SliceBack(dates, f)

SubsetResult(rows, c) ==
    LET train_and_validation_data ==
            RowsBetween(rows, c.train_date_start, c.train_date_end)
        test_data == RowsBetween(rows, c.test_date_start, c.test_date_end)
        train_and_validation_dates == NpUnique(train_and_validation_data)
        validation_dates ==
            ValidationDates(train_and_validation_dates, c.validation_frequency)
        train_dates == NotIn(train_and_validation_dates, validation_dates)
    IN [train |-> RowsIn(rows, train_dates),
        validation |-> RowsIn(rows, validation_dates),
        test |-> test_data]

SubsetDataByDate ==
    /\ p_pc = "ready"
    /\ IF DateCheck(call) # "none"
       THEN /\ p_pc' = "raised"
            /\ p_err' = DateCheck(call)
            /\ ret' = ret
       ELSE IF call.validation_frequency = 0
       THEN /\ p_pc' = "raised"
            /\ p_err' = "ValueError"
            /\ ret' = ret
       ELSE /\ p_pc' = "returned"
            /\ p_err' = p_err
            /\ ret' = SubsetResult(data, call)
    /\ UNCHANGED <<data, call, files, c_args, c_ret>>
    /\ UNCHANGED m_vars

\* ---- the inputs of a call
Days == 0..MaxDay
Freqs == {-1} \cup (0..MaxFreq)

\* A DataFrame holding the days of S: every day has two rows, and the rows are
\* not sorted by date.
RowsOf(S) == Reverse(Ascending(S)) \o Ascending(S)

Call(ts, te, xs, xe, f) ==
    [train_date_start |-> ts, train_date_end |-> te,
     test_date_start |-> xs, test_date_end |-> xe,
     validation_frequency |-> f]

\* ======================================================================
\* scripts/search_ml_model_params.py
\* ======================================================================

\* ---- the registries (lines 16-21, 140-142)
scalers == {"MinMaxScaler", "MaxAbsScaler", "StandardScaler", "RobustScaler"}
transforms == {"log10_transform", "neg_log10_transform"}
model_classes == {"RandomForestRegressor", "DenseNeuralNetwork", "DenseGAN"}
dist_types == {"randint", "expon", "uniform"}

\* ---- scalers (sklearn.preprocessing): an object is unfit or holds the
\* parameters estimated from the data it was fit on
NoMatrix == [kind |-> "none"]

\* the rows loaded from a list of files, restricted to the input or output columns
Columns(cols, filenames) == [cols |-> cols, rows |-> filenames]

NoData == [cols |-> "none", rows |-> <<>>]

NewScaler == [fitted |-> FALSE, on |-> NoData]

\* fit_transform(d): estimate the parameters from d, then apply them
FitTransform(scaler, d) ==
    [err |-> "none",
     scaler |-> [fitted |-> TRUE, on |-> d],
     out |-> [kind |-> "matrix", data |-> d, scaled_with |-> d]]

\* a transform that estimates the parameters again from the data it is given
TransformRefit(scaler, d) ==
    [err |-> "none",
     scaler |-> [fitted |-> TRUE, on |-> d],
     out |-> [kind |-> "matrix", data |-> d, scaled_with |-> d]]

\* transform(d): apply the parameters already fit; NotFittedError without them
Transform(scaler, d) ==
    IF scaler.fitted
    THEN [err |-> "none", scaler |-> scaler,
          out |-> [kind |-> "matrix", data |-> d, scaled_with |-> scaler.on]]
    ELSE [err |-> "NotFittedError", scaler |-> scaler, out |-> NoMatrix]

\* the names of a transform dictionary that are not registered
Unregistered(names) == {n \in Range(names) : n \notin transforms}

\* lines 124-129 (and lines 52-57 of train_quantile_neural_nets.py): the input
\* scaler, then the output scaler, fit on the data or applied to it; the first
\* exception ends the calls
ScaleBoth(in_scaler, out_scaler, filenames, train) ==
    LET op == IF train THEN "fit_transform" ELSE "transform"
        si == IF train THEN FitTransform(in_scaler, Columns("input", filenames))
                       ELSE Transform(in_scaler, Columns("input", filenames))
        so == IF train THEN FitTransform(out_scaler, Columns("output", filenames))
                       ELSE Transform(out_scaler, Columns("output", filenames))
    IN  IF si.err # "none"
        THEN [err |-> si.err, input_scaler |-> in_scaler, output_scaler |-> out_scaler,
              calls |-> <<[scaler |-> "input", op |-> op]>>,
              input |-> NoMatrix, output |-> NoMatrix]
        ELSE IF so.err # "none"
        THEN [err |-> so.err, input_scaler |-> si.scaler, output_scaler |-> out_scaler,
              calls |-> <<[scaler |-> "input", op |-> op],
                          [scaler |-> "output", op |-> op]>>,
              input |-> NoMatrix, output |-> NoMatrix]
        ELSE [err |-> "none", input_scaler |-> si.scaler, output_scaler |-> so.scaler,
              calls |-> <<[scaler |-> "input", op |-> op],
                          [scaler |-> "output", op |-> op]>>,
              input |-> si.out, output |-> so.out]

\* ---- assemble_data_files (lines 102-130). files: a sequence of file names;
\* the result names the exception raised (or "none"), the files read, the
\* scalers as the call leaves them, the scaler calls made and the two matrices.
AssembleDataFiles(filenames, input_transforms, output_transforms, in_scaler, out_scaler, train) ==
    LET failed == [err |-> "none", read |-> Range(filenames),
                   input_scaler |-> in_scaler, output_scaler |-> out_scaler,
                   calls |-> <<>>, input |-> NoMatrix, output |-> NoMatrix]
        sc == ScaleBoth(in_scaler, out_scaler, filenames, train)
    IN  IF filenames = <<>>
        THEN \* pd.concat of an empty list
             [failed EXCEPT !.err = "ValueError"]
        ELSE IF Unregistered(input_transforms) # {}
                \/ Unregistered(output_transforms) # {}
        THEN [failed EXCEPT !.err = "KeyError"]
        ELSE [err |-> sc.err, read |-> Range(filenames),
              input_scaler |-> sc.input_scaler, output_scaler |-> sc.output_scaler,
              calls |-> sc.calls, input |-> sc.input, output |-> sc.output]

\* the scaler calls of one staging, tagged with the subset staged
Tagged(calls, subset) ==
    [i \in 1..Len(calls) |->
        [scaler |-> calls[i].scaler, op |-> calls[i].op, subset |-> subset]]

\* ---- the random source: np.random.RandomState(seed) (line 77), a generator
\* of period RngModulus standing for the Mersenne Twister
RngModulus == 16
RngMultiplier == 5
RngIncrement == 3

RandomState(seed) == seed % RngModulus

RngNext(r) == (r * RngMultiplier + RngIncrement) % RngModulus

\* ---- parse_model_config_params (lines 23-31). model_params maps a parameter
\* to [dist, vals]: a distribution name with its arguments, or, with any other
\* dist, a literal list of values.
ParamOrder == <<"max_depth", "n_estimators">>

ParamDistribution(param_value) ==
    IF param_value.dist \in dist_types
    THEN [rvs |-> TRUE, dist |-> param_value.dist, args |-> param_value.vals]
    ELSE [rvs |-> FALSE, dist |-> "list", args |-> param_value.vals]

parse_model_config_params(model_params, num_settings, random_state) ==
    [param_distributions |->
        [param \in DOMAIN model_params |-> ParamDistribution(model_params[param])],
     n_iter |-> num_settings,
     random_state |-> random_state]

\* ---- sklearn.model_selection.ParameterSampler, as iterated by line 79
SortedKeys(pd) == SelectSeq(ParamOrder, LAMBDA k : k \in DOMAIN pd)

AllLists(pd) == \A k \in DOMAIN pd : ~pd[k].rvs

RECURSIVE GridSizeOf(_, _)
GridSizeOf(pd, keys) ==
    IF keys = <<>> THEN 1 ELSE Len(pd[Head(keys)].args) * GridSizeOf(pd, Tail(keys))

GridSize(pd) == GridSizeOf(pd, SortedKeys(pd))

\* ParameterGrid.__getitem__: the last key varies fastest
RECURSIVE GridOffsets(_, _, _)
GridOffsets(pd, keys, ind) ==
    IF keys = <<>> THEN <<>>
    ELSE LET n == Len(pd[keys[Len(keys)]].args)
         IN GridOffsets(pd, SubSeq(keys, 1, Len(keys) - 1), ind \div n)
            \o <<ind % n>>

KeyIndex(keys, k) == CHOOSE i \in 1..Len(keys) : keys[i] = k

GridPoint(pd, ind) ==
    LET keys == SortedKeys(pd)
        offs == GridOffsets(pd, keys, ind)
    IN [k \in DOMAIN pd |-> pd[k].args[offs[KeyIndex(keys, k)] + 1]]

RemoveAt(s, i) == SubSeq(s, 1, i - 1) \o SubSeq(s, i + 1, Len(s))

\* sample_without_replacement(n_population, n_samples, random_state)
RECURSIVE DrawDistinct(_, _, _)
DrawDistinct(pool, k, r) ==
    IF k = 0 \/ pool = <<>> THEN [idx |-> <<>>, rng |-> r]
    ELSE LET r1 == RngNext(r)
             i == (r1 % Len(pool)) + 1
             rest == DrawDistinct(RemoveAt(pool, i), k - 1, r1)
         IN [idx |-> <<pool[i]>> \o rest.idx, rng |-> rest.rng]

\* one value of one parameter: dist.rvs(random_state=rng), or
\* v[rng.randint(len(v))] for a literal list
DrawValue(d, r) ==
    IF d.rvs
    THEN IF d.dist = "randint"
         THEN d.args[1] + (r % (d.args[2] - d.args[1]))
         ELSE d.args[1] + r
    ELSE d.args[(r % Len(d.args)) + 1]

RECURSIVE DrawValues(_, _, _)
DrawValues(pd, keys, r) ==
    IF keys = <<>> THEN [vals |-> <<>>, rng |-> r]
    ELSE LET r1 == RngNext(r)
             rest == DrawValues(pd, Tail(keys), r1)
         IN [vals |-> <<DrawValue(pd[Head(keys)], r1)>> \o rest.vals, rng |-> rest.rng]

NoGenerator == [mode |-> "none", pd |-> <<>>, left |-> 0, idx |-> <<>>, rng |-> 0]

\* the first step of ParameterSampler.__iter__: with literal lists only, the
\* settings are sampled without replacement from the grid; n_iter above the grid
\* size is an error in the releases that reject it, and is cut to the grid size
\* in the others
StartSampler(sampler, strict) ==
    LET pd == sampler.param_distributions
        rnd == sampler.random_state
        n_iter == IF GridSize(pd) < sampler.n_iter THEN GridSize(pd) ELSE sampler.n_iter
        drawn == DrawDistinct([i \in 1..GridSize(pd) |-> i - 1], n_iter, rnd)
    IN  IF AllLists(pd)
        THEN IF GridSize(pd) < sampler.n_iter /\ strict
             THEN [NoGenerator EXCEPT !.mode = "ValueError"]
             ELSE [mode |-> "grid", pd |-> pd, left |-> n_iter,
                   idx |-> drawn.idx, rng |-> drawn.rng]
        ELSE [mode |-> "rvs", pd |-> pd, left |-> sampler.n_iter,
              idx |-> <<>>, rng |-> rnd]

\* the next setting the iterator yields, and the iterator after it
NextSetting(g) ==
    IF g.mode = "grid"
    THEN [params |-> GridPoint(g.pd, Head(g.idx)),
          gen |-> [g EXCEPT !.left = g.left - 1, !.idx = Tail(g.idx)]]
    ELSE LET keys == SortedKeys(g.pd)
             d == DrawValues(g.pd, keys, g.rng)
         IN [params |-> [k \in DOMAIN g.pd |-> d.vals[KeyIndex(keys, k)]],
             gen |-> [g EXCEPT !.left = g.left - 1, !.rng = d.rng]]

\* ---- main (lines 34-99)
Raise(e) ==
    /\ pc' = "aborted"
    /\ error' = e
    /\ raised_at' = pc

Goto(p) ==
    /\ pc' = p
    /\ UNCHANGED <<error, raised_at>>

\* lines 39-42
LoadConfig ==
    /\ pc = "start"
    /\ IF ~config_file.exists
       THEN Raise("FileNotFoundError") /\ config' = config
       ELSE Goto("subset") /\ config' = config_file
    /\ UNCHANGED <<config_file, strict_sampler, train_files, val_files, input_scaler,
                   output_scaler, files_read, staged, scale_log, cluster, scattered,
                   pointers, model_index, generator, submissions, status, yielded,
                   val_results, written>>
    /\ UNCHANGED other_vars

\* the file lists subset_data_files_by_date can return
TrainFileLists == {<<>>, <<1, 2>>}
ValFileLists == {<<>>, <<3>>}

\* lines 44-45
SubsetFiles ==
    /\ pc = "subset"
    /\ \E tf \in TrainFileLists, vf \in ValFileLists :
          /\ train_files' = tf
          /\ val_files' = vf
    /\ Goto("scalers")
    /\ UNCHANGED <<config_file, strict_sampler, config, input_scaler,
                   output_scaler, files_read, staged, scale_log, cluster, scattered,
                   pointers, model_index, generator, submissions, status, yielded,
                   val_results, written>>
    /\ UNCHANGED other_vars

\* lines 46-47
MakeScalers ==
    /\ pc = "scalers"
    /\ IF config.input_scaler \notin scalers \/ config.output_scaler \notin scalers
       THEN Raise("KeyError") /\ UNCHANGED <<input_scaler, output_scaler>>
       ELSE /\ Goto("stage_train")
            /\ input_scaler' = NewScaler
            /\ output_scaler' = NewScaler
    /\ UNCHANGED <<config_file, strict_sampler, config, train_files, val_files,
                   files_read, staged, scale_log, cluster, scattered,
                   pointers, model_index, generator, submissions, status, yielded,
                   val_results, written>>
    /\ UNCHANGED other_vars

\* one call of assemble_data_files by main: the files are read, the scalers are
\* fit or applied, and either the exception leaves main or the matrices are kept
Stage(filenames, train, subset, next) ==
    LET r == AssembleDataFiles(filenames, config.input_transforms,
                               config.output_transforms,
                               input_scaler, output_scaler, train)
    IN  /\ files_read' = files_read \cup r.read
        /\ input_scaler' = r.input_scaler
        /\ output_scaler' = r.output_scaler
        /\ scale_log' = scale_log \o Tagged(r.calls, subset)
        /\ IF r.err # "none"
           THEN Raise(r.err) /\ staged' = staged
           ELSE /\ Goto(next)
                /\ staged' = [staged EXCEPT ![subset] =
                                 [input |-> r.input, output |-> r.output]]
        /\ UNCHANGED <<config_file, strict_sampler, config, train_files, val_files,
                       cluster, scattered, pointers, model_index, generator,
                       submissions, status, yielded, val_results, written>>
        /\ UNCHANGED other_vars

\* lines 48-54
StageTrain ==
    /\ pc = "stage_train"
    /\ Stage(train_files, TRUE, "train", "cluster")

\* lines 56-57
StartCluster ==
    /\ pc = "cluster"
    /\ cluster' = "running"
    /\ Goto("scatter_train_input")
    /\ UNCHANGED <<config_file, strict_sampler, config, train_files, val_files,
                   input_scaler, output_scaler, files_read, staged, scale_log,
                   scattered, pointers, model_index, generator, submissions, status,
                   yielded, val_results, written>>
    /\ UNCHANGED other_vars

\* client.scatter(matrix): the matrix is sent to the workers and a future naming
\* it is returned
Scatter(subset, part, at, next) ==
    /\ pc = at
    /\ scattered' = Append(scattered, staged[subset][part])
    /\ pointers' = [pointers EXCEPT ![subset][part] =
                       [kind |-> "future", key |-> Len(scattered) + 1]]
    /\ Goto(next)
    /\ UNCHANGED <<config_file, strict_sampler, config, train_files, val_files,
                   input_scaler, output_scaler, files_read, staged, scale_log,
                   cluster, model_index, generator, submissions, status,
                   yielded, val_results, written>>
    /\ UNCHANGED other_vars

\* line 59
ScatterTrainInput == Scatter("train", "input", "scatter_train_input", "scatter_train_output")
\* line 60
ScatterTrainOutput == Scatter("train", "output", "scatter_train_output", "stage_val")

\* lines 61-68
StageVal ==
    /\ pc = "stage_val"
    /\ Stage(val_files, FALSE, "val", "scatter_val_input")

\* line 69
ScatterValInput == Scatter("val", "input", "scatter_val_input", "scatter_val_output")
\* line 70
ScatterValOutput == Scatter("val", "output", "scatter_val_output", "models")

\* one random source made before the loop and shared by the models
SharedRandomState ==
    IF generator.mode = "none" THEN RandomState(config.random_seed) ELSE generator.rng

\* line 77: the random source handed to parse_model_config_params
ModelRandomState == RandomState(config.random_seed)

\* lines 73-78: the next model of config["models"], its sampler seeded from a
\* RandomState made for it, and its empty list of results
BeginModel ==
    /\ pc = "models"
    /\ model_index <= Len(config.models)
    /\ LET m == config.models[model_index]
       IN /\ generator' = StartSampler(
                 parse_model_config_params(m.params, config.num_param_samples,
                                           ModelRandomState),
                 strict_sampler)
          /\ val_results' = [n \in DOMAIN val_results \cup {m.name} |->
                                IF n = m.name THEN <<>> ELSE val_results[n]]
    /\ Goto("configs")
    /\ UNCHANGED <<config_file, strict_sampler, config, train_files, val_files,
                   input_scaler, output_scaler, files_read, staged, scale_log,
                   cluster, scattered, pointers, model_index, submissions, status,
                   yielded, written>>
    /\ UNCHANGED other_vars

\* a submit that sends the matrices themselves
SubmitArgsInline(model_name, model_config) ==
    [model_name |-> model_name, model_config |-> model_config,
     train_input |-> staged["train"]["input"],
     train_output |-> staged["train"]["output"],
     val_input |-> staged["val"]["input"],
     val_output |-> staged["val"]["output"]]

\* the arguments of one client.submit (lines 81-84)
SubmitArgs(model_name, model_config) ==
    [model_name |-> model_name, model_config |-> model_config,
     train_input |-> pointers["train"]["input"],
     train_output |-> pointers["train"]["output"],
     val_input |-> pointers["val"]["input"],
     val_output |-> pointers["val"]["output"]]

\* lines 79-84: one step of the loop over the sampler
NextConfig ==
    /\ pc = "configs"
    /\ IF generator.mode = "ValueError"
       THEN /\ Raise("ValueError")
            /\ UNCHANGED <<generator, model_index, submissions, status>>
       ELSE IF generator.left = 0
       THEN /\ Goto("models")
            /\ model_index' = model_index + 1
            /\ UNCHANGED <<generator, submissions, status>>
       ELSE LET n == NextSetting(generator)
            IN /\ Goto("configs")
               /\ generator' = n.gen
               /\ submissions' = Append(submissions,
                      SubmitArgs(config.models[model_index].name, n.params))
               /\ status' = Append(status, "pending")
               /\ UNCHANGED model_index
    /\ UNCHANGED <<config_file, strict_sampler, config, train_files, val_files,
                   input_scaler, output_scaler, files_read, staged, scale_log,
                   cluster, scattered, pointers, yielded, val_results, written>>
    /\ UNCHANGED other_vars

\* line 73: the loop over config["models"] is over
EndModels ==
    /\ pc = "models"
    /\ model_index > Len(config.models)
    /\ Goto("collect")
    /\ UNCHANGED <<config_file, strict_sampler, config, train_files, val_files,
                   input_scaler, output_scaler, files_read, staged, scale_log,
                   cluster, scattered, pointers, model_index, generator, submissions,
                   status, yielded, val_results, written>>
    /\ UNCHANGED other_vars

\* ---- validate_model_configuration (lines 133-160), run by a worker: the model
\* class lookup raises KeyError for an unregistered name; fit and predict may
\* raise
TaskOutcomes(task) ==
    IF task.model_name \notin model_classes THEN {"error"} ELSE {"finished", "error"}

RunTask(t) ==
    /\ cluster = "running"
    /\ pc \notin {"aborted", "done"}
    /\ status[t] = "pending"
    /\ \E o \in TaskOutcomes(submissions[t]) : status' = [status EXCEPT ![t] = o]
    /\ UNCHANGED <<pc, error, raised_at, config_file, strict_sampler, config,
                   train_files, val_files, input_scaler, output_scaler, files_read,
                   staged, scale_log, cluster, scattered, pointers, model_index,
                   generator, submissions, yielded, val_results, written>>
    /\ UNCHANGED other_vars

\* the exception out.result() raises again for a failed task
TaskException(task) ==
    IF task.model_name \notin model_classes THEN "KeyError" ELSE "FitError"

\* the entry a finished task returns (line 158)
ValEntry(task) == [name |-> task.model_name, config |-> task.model_config]

\* an assignment in place of the append
AccumulateReplace(results, task) ==
    [results EXCEPT ![task.model_name] = <<ValEntry(task)>>]

\* what line 88 does with the result of task t
Accumulate(results, task) ==
    [results EXCEPT ![task.model_name] = Append(@, ValEntry(task))]

\* lines 85-88: as_completed yields a task that has ended and was not yet
\* yielded; out.result() raises the exception of a failed task
Collect(t) ==
    /\ pc = "collect"
    /\ status[t] # "pending"
    /\ t \notin Range(yielded)
    /\ yielded' = Append(yielded, t)
    /\ IF status[t] = "error"
       THEN Raise(TaskException(submissions[t])) /\ val_results' = val_results
       ELSE Goto("collect") /\ val_results' = Accumulate(val_results, submissions[t])
    /\ UNCHANGED <<config_file, strict_sampler, config, train_files, val_files,
                   input_scaler, output_scaler, files_read, staged, scale_log,
                   cluster, scattered, pointers, model_index, generator, submissions,
                   status, written>>
    /\ UNCHANGED other_vars

\* line 85: as_completed is exhausted
CollectDone ==
    /\ pc = "collect"
    /\ Len(yielded) = Len(submissions)
    /\ Goto("write")
    /\ UNCHANGED <<config_file, strict_sampler, config, train_files, val_files,
                   input_scaler, output_scaler, files_read, staged, scale_log,
                   cluster, scattered, pointers, model_index, generator, submissions,
                   status, yielded, val_results, written>>
    /\ UNCHANGED other_vars

\* the models of config["models"] before the first one without any result
WritableModels(results, models) ==
    LET empty == {i \in 1..Len(models) : results[models[i].name] = <<>>}
        stop == IF empty = {} THEN Len(models) + 1 ELSE Min(empty)
    IN {models[i].name : i \in 1..(stop - 1)}

\* lines 89-96: one table per model, pd.concat raising ValueError for a model
\* without any result
WriteTables ==
    /\ pc = "write"
    /\ written' = WritableModels(val_results, config.models)
    /\ IF \E i \in 1..Len(config.models) : val_results[config.models[i].name] = <<>>
       THEN Raise("ValueError")
       ELSE Goto("close")
    /\ UNCHANGED <<config_file, strict_sampler, config, train_files, val_files,
                   input_scaler, output_scaler, files_read, staged, scale_log,
                   cluster, scattered, pointers, model_index, generator, submissions,
                   status, yielded, val_results>>
    /\ UNCHANGED other_vars

\* lines 97-98
Close ==
    /\ pc = "close"
    /\ cluster' = "closed"
    /\ Goto("done")
    /\ UNCHANGED <<config_file, strict_sampler, config, train_files, val_files,
                   input_scaler, output_scaler, files_read, staged, scale_log,
                   scattered, pointers, model_index, generator, submissions,
                   status, yielded, val_results, written>>
    /\ UNCHANGED other_vars

\* ======================================================================
\* scripts/train_quantile_neural_nets.py
\* ======================================================================
m_rest == <<config_file, strict_sampler, config, train_files, val_files, staged,
            cluster, scattered, pointers, model_index, generator, submissions,
            status, yielded, val_results, written>>

\* the file lists subset_data_files_by_date can return
QuantileFiles ==
    [train : {<<1>>, <<1, 2>>}, val : {<<3>>}, test : {<<4>>, <<4, 5>>}]

\* lines 28-37: the two QuantileTransformer objects and the file lists
QSubsetFiles ==
    /\ pc = "q_start"
    /\ files' \in QuantileFiles
    /\ input_scaler' = NewScaler
    /\ output_scaler' = NewScaler
    /\ Goto("q_train")
    /\ UNCHANGED <<files_read, scale_log, p_vars, c_args, c_ret>>
    /\ UNCHANGED m_rest

\* lines 45-57, one pass of the loop over subsets: the subset is loaded, and the
\* scalers are fit on it if it is "train" and applied to it otherwise
QStage(subset, next) ==
    LET sc == ScaleBoth(input_scaler, output_scaler, files[subset], subset = "train")
    IN  /\ pc = "q_" \o subset
        /\ files_read' = files_read \cup Range(files[subset])
        /\ input_scaler' = sc.input_scaler
        /\ output_scaler' = sc.output_scaler
        /\ scale_log' = scale_log \o Tagged(sc.calls, subset)
        /\ IF sc.err # "none" THEN Raise(sc.err) ELSE Goto(next)
        /\ UNCHANGED <<files, p_vars, c_args, c_ret>>
        /\ UNCHANGED m_rest

QStageTrain == QStage("train", "q_val")
QStageVal == QStage("val", "q_test")
QStageTest == QStage("test", "q_fit")

\* lines 58-84: the scalers are saved and the network is trained on the staged data
QFit ==
    /\ pc = "q_fit"
    /\ Goto("q_done")
    /\ UNCHANGED <<files, files_read, input_scaler, output_scaler, scale_log,
                   p_vars, c_args, c_ret>>
    /\ UNCHANGED m_rest

\* ======================================================================
\* assemble_data_files called on its own
\* ======================================================================
NoCall == [files |-> <<>>, input_scaler |-> NewScaler, output_scaler |-> NewScaler,
           train |-> FALSE, input_transforms |-> <<>>, output_transforms |-> <<>>]

\* scalers as a caller can hand them over: new, or fit on files 1 and 2
ScalerStates(cols) ==
    {NewScaler, [fitted |-> TRUE, on |-> Columns(cols, <<1, 2>>)]}

CallArgs ==
    [files : {<<>>, <<3>>, <<3, 4>>},
     input_scaler : ScalerStates("input"),
     output_scaler : ScalerStates("output"),
     train : BOOLEAN,
     input_transforms : {<<"log10_transform">>, <<"NoSuchTransform">>},
     output_transforms : {<<>>}]

CallAssemble ==
    /\ pc = "call"
    /\ c_ret' = AssembleDataFiles(c_args.files, c_args.input_transforms,
                                  c_args.output_transforms, c_args.input_scaler,
                                  c_args.output_scaler, c_args.train)
    /\ IF c_ret'.err # "none" THEN Raise(c_ret'.err) ELSE Goto("returned")
    /\ UNCHANGED <<files, files_read, input_scaler, output_scaler, scale_log,
                   p_vars, c_args>>
    /\ UNCHANGED m_rest

\* ---- the configurations main is run with
MaxSamples == 2
ParamSpecs ==
    { [n_estimators |-> [dist |-> "randint", vals |-> <<1, 4>>]],
      [max_depth |-> [dist |-> "list", vals |-> <<2, 4>>]],
      [max_depth |-> [dist |-> "list", vals |-> <<3>>]],
      [max_depth |-> [dist |-> "list", vals |-> <<2, 4>>],
       n_estimators |-> [dist |-> "randint", vals |-> <<1, 4>>]] }

ModelNames == <<"RandomForestRegressor", "DenseNeuralNetwork", "NoSuchModel">>

Model(i, ps) == [name |-> ModelNames[i], params |-> ps]

\* config["models"]: one model, or two in the order of ModelNames
ModelLists ==
    {<<Model(i, ps)>> : i \in DOMAIN ModelNames, ps \in ParamSpecs}
    \cup {<<Model(ij[1], ps), Model(ij[2], qs)>> :
            ij \in {x \in (DOMAIN ModelNames) \X (DOMAIN ModelNames) : x[1] < x[2]},
            ps \in ParamSpecs, qs \in ParamSpecs}

Seeds == {0, 7}

Configs ==
    [exists : {TRUE},
     input_scaler : {"StandardScaler", "NoSuchScaler"},
     output_scaler : {"MinMaxScaler", "NoSuchScaler"},
     input_transforms : {<<"log10_transform">>, <<"NoSuchTransform">>},
     output_transforms : {<<"neg_log10_transform">>, <<"NoSuchTransform">>},
     models : ModelLists,
     num_param_samples : 0..MaxSamples,
     random_seed : Seeds]

NoConfig == [exists |-> FALSE]
NoPointer == [kind |-> "none"]

MainStart ==
    /\ error = "none"
    /\ raised_at = "none"
    /\ config = NoConfig
    /\ train_files = <<>>
    /\ val_files = <<>>
    /\ input_scaler = NewScaler
    /\ output_scaler = NewScaler
    /\ files_read = {}
    /\ staged = [s \in {"train", "val"} |-> [input |-> NoMatrix, output |-> NoMatrix]]
    /\ scale_log = <<>>
    /\ cluster = "none"
    /\ scattered = <<>>
    /\ pointers = [s \in {"train", "val"} |-> [input |-> NoPointer, output |-> NoPointer]]
    /\ model_index = 1
    /\ generator = NoGenerator
    /\ submissions = <<>>
    /\ status = <<>>
    /\ yielded = <<>>
    /\ val_results = [n \in {} |-> <<>>]
    /\ written = {}

MainIdle ==
    /\ MainStart
    /\ config_file = NoConfig
    /\ strict_sampler = FALSE

PartitionIdle ==
    /\ p_pc = "idle"
    /\ p_err = "none"
    /\ ret = NoRet
    /\ data = <<>>
    /\ call = Call(0, 0, 0, 0, 0)

NoFiles == [train |-> <<>>, val |-> <<>>, test |-> <<>>]

NoResult == [err |-> "none", read |-> {}, input_scaler |-> NewScaler,
             output_scaler |-> NewScaler, calls |-> <<>>,
             input |-> NoMatrix, output |-> NoMatrix]

\* search_ml_model_params.py is run
SearchInit ==
    /\ pc = "start"
    /\ MainStart
    /\ config_file \in {NoConfig} \cup Configs
    /\ strict_sampler \in BOOLEAN
    /\ files = NoFiles
    /\ c_args = NoCall
    /\ c_ret = NoResult

\* train_quantile_neural_nets.py is run
QuantileInit ==
    /\ pc = "q_start"
    /\ MainIdle
    /\ files = NoFiles
    /\ c_args = NoCall
    /\ c_ret = NoResult

\* assemble_data_files is called
CallInit ==
    /\ pc = "call"
    /\ MainIdle
    /\ files = NoFiles
    /\ c_args \in CallArgs
    /\ c_ret = NoResult

Init ==
    /\ PartitionIdle
    /\ \/ SearchInit
       \/ QuantileInit
       \/ CallInit

Next ==
    \/ LoadConfig
    \/ SubsetFiles
    \/ MakeScalers
    \/ StageTrain
    \/ StartCluster
    \/ ScatterTrainInput
    \/ ScatterTrainOutput
    \/ StageVal
    \/ ScatterValInput
    \/ ScatterValOutput
    \/ BeginModel
    \/ NextConfig
    \/ EndModels
    \/ \E t \in DOMAIN submissions : RunTask(t)
    \/ \E t \in DOMAIN submissions : Collect(t)
    \/ CollectDone
    \/ WriteTables
    \/ Close
    \/ QSubsetFiles
    \/ QStageTrain
    \/ QStageVal
    \/ QStageTest
    \/ QFit
    \/ CallAssemble

Spec == Init /\ [][Next]_vars

PartitionInit ==
    /\ pc = "idle"
    /\ MainIdle
    /\ files = NoFiles
    /\ c_args = NoCall
    /\ c_ret = NoResult
    /\ p_pc = "ready"
    /\ p_err = "none"
    /\ ret = NoRet
    /\ \/ /\ data \in {RowsOf(S) : S \in SUBSET Days}
          /\ call \in {Call(ts, te, xs, xe, f) :
                         ts \in Days, te \in Days, xs \in Days, xe \in Days,
                         f \in Freqs}
       \/ \* ten days of data, train 1..5, test 6..10, every third day
          /\ data = RowsOf(1..10)
          /\ call = Call(1, 5, 6, 10, 3)

PartitionNext == SubsetDataByDate

SpecPartition == PartitionInit /\ [][PartitionNext]_vars

\* ======================================================================
\* Properties
\* ======================================================================
Keys(rows) == Range(rows)

Occurrences(seq, x) == Cardinality({i \in DOMAIN seq : seq[i] = x})

\* the preconditions of subset_data_by_date
ValidCall(c) ==
    /\ c.train_date_start <= c.train_date_end
    /\ c.test_date_start <= c.test_date_end
    /\ c.train_date_end <= c.test_date_start
    /\ c.validation_frequency >= 2

\* C1: for every valid call of subset_data_by_date the keys of the returned
\* train, validation and test sets are pairwise disjoint.
C1_PairwiseDisjoint ==
    (p_pc = "returned" /\ ValidCall(call)) =>
        /\ Keys(ret.train) \cap Keys(ret.validation) = {}
        /\ Keys(ret.train) \cap Keys(ret.test) = {}
        /\ Keys(ret.validation) \cap Keys(ret.test) = {}

\* the distinct keys of data in [lo, hi]
WindowKeys(lo, hi) == {d \in Range(data) : d >= lo /\ d <= hi}

\* the 0-indexed position of d among the ascending keys of K
Position(K, d) == Cardinality({e \in K : e < d})

\* C5: validation holds exactly the train-window keys at the 0-indexed positions
\* f, 2f, 3f, ... of the ascending distinct keys, train holds the other
\* train-window keys, test holds the distinct keys of the test window; for days
\* 1..10, train 1..5, test 6..10 and f = 3 that is {4}, {1,2,3,5} and 6..10.
C5_PartitionKeys ==
    (p_pc = "returned" /\ call.validation_frequency >= 1) =>
        LET f == call.validation_frequency
            K == WindowKeys(call.train_date_start, call.train_date_end)
            V == {d \in K : Position(K, d) >= f /\ Position(K, d) % f = 0}
        IN  /\ Keys(ret.validation) = V
            /\ Keys(ret.train) = K \ V
            /\ Keys(ret.train) \cup Keys(ret.validation) = K
            /\ Keys(ret.test) = WindowKeys(call.test_date_start, call.test_date_end)
            /\ (data = RowsOf(1..10) /\ call = Call(1, 5, 6, 10, 3)) =>
                  /\ Keys(ret.validation) = {4}
                  /\ Keys(ret.train) = {1, 2, 3, 5}
                  /\ Keys(ret.test) = 6..10

C5_TenDaysPartitioned ==
    /\ p_pc = "returned"
    /\ data = RowsOf(1..10)
    /\ call = Call(1, 5, 6, 10, 3)
    /\ Keys(ret.validation) = {4}

\* C6: a call of subset_data_by_date raises a range error exactly when one of
\* its preconditions is violated, validation_frequency >= 2 among them.
C6_RaisesIffInvalid ==
    (p_pc \in {"returned", "raised"}) =>
        ((p_pc = "raised" /\ p_err = "ValueError") <=> ~ValidCall(call))

\* the loop over as_completed has ended, by exhaustion or by an exception
LoopEnded ==
    \/ pc \in {"write", "close", "done"}
    \/ pc = "aborted" /\ raised_at \in {"collect", "write"}

\* C2: when the loop over as_completed ends, every submitted task has been
\* yielded exactly once.
C2_EveryTaskYieldedOnce ==
    LoopEnded => \A t \in DOMAIN submissions : Occurrences(yielded, t) = 1

\* the entry of task t is in the table of its model
Collected(t) ==
    /\ submissions[t].model_name \in DOMAIN val_results
    /\ ValEntry(submissions[t]) \in Range(val_results[submissions[t].model_name])

\* C3: a failed task does not end the run: when main has ended after a failed
\* task was yielded, main has not ended by that failure and the result of every
\* other submitted task is in the table of its model.
C3_TaskFailureIsolated ==
    (pc \in {"done", "aborted"} /\ \E t \in Range(yielded) : status[t] = "error") =>
        /\ raised_at # "collect"
        /\ \A u \in DOMAIN submissions : status[u] # "error" => Collected(u)

\* the tasks submitted for a model
SubmittedFor(name) == SelectSeq(submissions, LAMBDA x : x.model_name = name)

RECURSIVE TotalLength(_, _)
TotalLength(results, names) ==
    IF names = {} THEN 0
    ELSE LET n == CHOOSE x \in names : TRUE
         IN Len(results[n]) + TotalLength(results, names \ {n})

TablesFinal ==
    \/ pc \in {"write", "close", "done"}
    \/ pc = "aborted" /\ raised_at = "write"

\* C4: once as_completed is exhausted there is one table per model of the
\* configuration, the table of a model holds exactly the results of the tasks
\* submitted for it, in any order, and the tables together hold as many results
\* as tasks were submitted.
C4_TablesHoldSubmittedResults ==
    TablesFinal =>
        /\ DOMAIN val_results = {config.models[i].name : i \in DOMAIN config.models}
        /\ \A n \in DOMAIN val_results :
              /\ Len(val_results[n]) = Len(SubmittedFor(n))
              /\ \A x \in Range(SubmittedFor(n)) :
                    Occurrences(val_results[n], ValEntry(x)) =
                    Cardinality({i \in DOMAIN SubmittedFor(n) :
                                    ValEntry(SubmittedFor(n)[i]) = ValEntry(x)})
        /\ TotalLength(val_results, DOMAIN val_results) = Len(submissions)

C4_TwoTablesOfDifferentLength ==
    /\ pc = "done"
    /\ Len(config.models) = 2
    /\ Len(val_results[config.models[1].name]) = 2
    /\ Len(val_results[config.models[2].name]) = 1
    /\ yielded # <<1, 2, 3>>

\* the configuration names a scaler, a transform or a model that is not registered
UnknownNames(c) ==
    /\ c.exists
    /\ \/ c.input_scaler \notin scalers
       \/ c.output_scaler \notin scalers
       \/ Unregistered(c.input_transforms) # {}
       \/ Unregistered(c.output_transforms) # {}
       \/ \E i \in DOMAIN c.models : c.models[i].name \notin model_classes

\* C7: in a run whose configuration names an unregistered scaler, transform or
\* model, no data file is read and no task is submitted.
C7_UnknownNamesFailFast ==
    UnknownNames(config_file) => (files_read = {} /\ submissions = <<>>)

\* the number of scale_log entries of a scaler with an operation
ScalerCalls(scaler, op) ==
    Cardinality({i \in DOMAIN scale_log :
                    scale_log[i].scaler = scaler /\ scale_log[i].op = op})

\* every subset of the run has been staged
AllStaged ==
    \/ pc \in {"q_fit", "q_done"}
    \/ staged["val"]["input"].kind = "matrix"

\* assemble_data_files was called with train = False and a scaler that is not fit
UnfitCall ==
    /\ pc \in {"returned", "aborted"}
    /\ raised_at \in {"none", "call"}
    /\ ~c_args.train
    /\ ~c_args.input_scaler.fitted \/ ~c_args.output_scaler.fitted

\* C8: in every run of the two scripts each scaler is fit exactly once, on the
\* train subset, before it is applied to another subset; the other subsets are
\* staged without fitting and leave the parameters fit on train in place; and
\* assemble_data_files with train = False on a scaler that is not fit raises
\* NotFittedError and returns no data.
C8_FitOnceApplyMany ==
    /\ \A i \in DOMAIN scale_log :
          /\ scale_log[i].op = "fit_transform" <=> scale_log[i].subset = "train"
          /\ scale_log[i].op = "transform" =>
                \E j \in 1..(i - 1) :
                    /\ scale_log[j].scaler = scale_log[i].scaler
                    /\ scale_log[j].op = "fit_transform"
    /\ \A s \in {"input", "output"} : ScalerCalls(s, "fit_transform") <= 1
    /\ AllStaged =>
          /\ \A s \in {"input", "output"} : ScalerCalls(s, "fit_transform") = 1
          /\ \E i \in DOMAIN scale_log : scale_log[i].subset = "val"
    /\ staged["val"]["input"].kind = "matrix" =>
          /\ staged["val"]["input"].scaled_with = Columns("input", train_files)
          /\ staged["val"]["output"].scaled_with = Columns("output", train_files)
          /\ input_scaler.on = Columns("input", train_files)
          /\ output_scaler.on = Columns("output", train_files)
    /\ pc \in {"q_fit", "q_done"} =>
          /\ input_scaler.on = Columns("input", files["train"])
          /\ output_scaler.on = Columns("output", files["train"])
    /\ UnfitCall =>
          /\ c_ret.err # "none"
          /\ c_ret.input = NoMatrix
          /\ c_ret.output = NoMatrix
          /\ (c_args.files # <<>> /\ Unregistered(c_args.input_transforms) = {}) =>
                c_ret.err = "NotFittedError"

C8_ValidationStagedAfterFit ==
    /\ pc = "done"
    /\ staged["val"]["input"].kind = "matrix"
    /\ Len(scale_log) = 4

Names(models) == {models[i].name : i \in DOMAIN models}

\* C9: the pool is running before the first scatter; each of the four staged
\* matrices is scattered once, all before the first submit; every submitted task
\* holds the four futures in place of the matrices; the pool is closed only
\* after every submitted task was yielded by as_completed and every table was
\* written.
C9_PoolAndBroadcastOrder ==
    /\ scattered # <<>> => cluster # "none"
    /\ \A i, j \in DOMAIN scattered : scattered[i] = scattered[j] => i = j
    /\ submissions # <<>> =>
          scattered = <<staged["train"]["input"], staged["train"]["output"],
                        staged["val"]["input"], staged["val"]["output"]>>
    /\ \A t \in DOMAIN submissions :
          LET task == submissions[t]
          IN  /\ task.train_input.kind = "future"
              /\ task.train_output.kind = "future"
              /\ task.val_input.kind = "future"
              /\ task.val_output.kind = "future"
              /\ scattered[task.train_input.key] = staged["train"]["input"]
              /\ scattered[task.train_output.key] = staged["train"]["output"]
              /\ scattered[task.val_input.key] = staged["val"]["input"]
              /\ scattered[task.val_output.key] = staged["val"]["output"]
    /\ cluster = "closed" =>
          /\ \A t \in DOMAIN submissions : t \in Range(yielded)
          /\ written = Names(config.models)

C9_ClosedAfterThreeTasks ==
    /\ pc = "done"
    /\ cluster = "closed"
    /\ Len(submissions) >= 3

\* the settings submitted for a model, in submission order
ConfigsOf(name) ==
    [i \in 1..Len(SubmittedFor(name)) |-> SubmittedFor(name)[i].model_config]

\* every parameter of a model's params is a literal list
AllLiteral(params) == \A k \in DOMAIN params : params[k].dist \notin dist_types

\* the number of points of the grid of literal lists
GridPoints(params) == GridSize([k \in DOMAIN params |-> ParamDistribution(params[k])])

\* the models of the configuration whose sampler has been exhausted
Sampled == {i \in DOMAIN config.models : i < model_index}

\* two calls with the same params, count and seed yield the same settings
SameSpecSameSettings ==
    \A i, j \in DOMAIN config.models :
        config.models[i].params = config.models[j].params =>
            LET a == ConfigsOf(config.models[i].name)
                b == ConfigsOf(config.models[j].name)
            IN \A k \in DOMAIN a \cap DOMAIN b : a[k] = b[k]

GridTooSmall(i) ==
    /\ AllLiteral(config.models[i].params)
    /\ GridPoints(config.models[i].params) < config.num_param_samples

C11_ValidationCountNearQuotient ==
    (p_pc = "returned" /\ ValidCall(call)) =>
        LET f == call.validation_frequency
            n == Cardinality(WindowKeys(call.train_date_start, call.train_date_end))
            v == Cardinality(Keys(ret.validation))
        IN  /\ n = Cardinality(Keys(ret.train) \cup Keys(ret.validation))
            /\ f * v <= n + f
            /\ n <= f * v + f

\* n is a multiple of f and the count is a whole key below n / f
C11_CountOneBelowQuotient ==
    /\ p_pc = "returned"
    /\ ValidCall(call)
    /\ Cardinality(WindowKeys(call.train_date_start, call.train_date_end)) = 4
    /\ call.validation_frequency = 2
    /\ Cardinality(Keys(ret.validation)) = 1

====
